---- MODULE Spec2Model ----
(***************************************************************************)
(* Scope-based role/group authorization engine of oxutils.permissions.     *)
(*                                                                         *)
(* Modelled from src/src/oxutils/permissions: actions.py (action lattice), *)
(* models.py (template store, grant store) and utils.py (assign_role,      *)
(* revoke_role, assign_group, override_grant, check).  revoke_group,       *)
(* role_sync, group_sync, any_action_check, any_permission_check and       *)
(* parse_permission have no code under src/ and are modelled from sections *)
(* 4.4, 4.6 and 4.7 of the specification.                                  *)
(*                                                                         *)
(* ArrayField action lists are modelled as sets (the code only tests       *)
(* membership and containment on them); JSON context maps are modelled as  *)
(* sets of <<key, value>> pairs.  A table is a bag of rows: the primary    *)
(* key only tells equal rows apart, which the multiplicity does.  Of the   *)
(* constraints of the schema, the model has NOT NULL on Grant.role, the    *)
(* unique constraints and the on_delete rule of Grant.user_group.          *)
(*                                                                         *)
(* Spec runs the operations one after the other, each as one step.         *)
(* SpecConcurrent adds calls in progress: assign_group, whose loop commits *)
(* one assign_role at a time, and assign_role between the lookups and the  *)
(* creates of update_or_create.  SpecLattice runs expand_actions and       *)
(* collapse_actions alone on every list over five codes and an unknown one.*)
(***************************************************************************)
EXTENDS Integers, FiniteSets, Sequences, Bags, TLC

(* ------------------------------ bounds -------------------------------- *)

\* Largest number of Grant rows held by the store at once.
MaxGrants == 2

\* Largest number of direct writes to the store in one behaviour.
MaxStoreWrites == 2

(* ------------------------------ universe ------------------------------ *)

Users == {"u1", "u2"}

NoUser == "no_user"

\* What a caller may pass as by=, the actor of an assignment.
Actors == {"u2"}

\* required lists a caller hands to check.
RequiredSets == {{"r"}, {"w"}, {"d"}, {"r", "w"}}

\* Scope strings, in the order of Meta.ordering = ["scope"].
ScopeOrder == <<"articles", "comments">>

Scopes == {ScopeOrder[i] : i \in 1..Len(ScopeOrder)}

NoScope == "no_scope"

\* Rows of the Role table, in the order of Meta.ordering = ["slug"].
RoleOrder == <<"editor", "viewer">>

Roles == {RoleOrder[i] : i \in 1..Len(RoleOrder)}

\* Slugs a caller may pass; "nonexistent" names no Role row.
RoleSlugs == Roles \cup {"nonexistent"}

\* Rows of the Group table and their member roles (Group.roles).
Groups == {"staff", "team"}

GroupSlugs == Groups \cup {"nonexistent"}

GroupRoles ==
    [g \in Groups |-> IF g = "staff" THEN {"viewer"} ELSE {"editor", "viewer"}]

\* The group whose rows are written to the store directly.
StoreGroups == {"staff"}

\* A UserGroup row is the pair <<user, group>> (unique_user_group); this
\* value stands for a NULL user_group.
NoUserGroup == <<NoUser, "no_group">>

\* Context maps used by templates and by check filters.
NoContext == {}

FilterContexts == {NoContext, {<<"tenant_id", 123>>}, {<<"tenant_id", 456>>}}

\* Raw action lists a caller hands to RoleGrant.save(), and the scopes whose
\* templates callers edit.
RawActionSets == {{"d"}}

EditedScopes == {"articles"}

\* settings.PERMISSION_PRESET["role_grants"]: the templates load_preset
\* creates, with the raw actions of the preset.
PERMISSION_PRESET ==
    {[role |-> "editor", scope |-> "articles", actions |-> {"w"},
      context |-> NoContext],
     [role |-> "editor", scope |-> "comments", actions |-> {"r"},
      context |-> {<<"tenant_id", 123>>}],
     [role |-> "viewer", scope |-> "articles", actions |-> {"r"},
      context |-> NoContext]}

\* remove_actions lists a caller hands to override_grant.
RemoveSets == {{"w"}, {"u"}, {"r", "w"}}

(* --------------------------- action lattice --------------------------- *)

\* Keys of ACTION_HIERARCHY in insertion (= iteration) order.
VALID_ACTIONS == <<"r", "w", "u", "d", "a">>

ActionCodes == {VALID_ACTIONS[i] : i \in 1..Len(VALID_ACTIONS)}

ACTION_HIERARCHY ==
    [a \in ActionCodes |->
        CASE a = "r" -> {}
          [] a = "w" -> {"r"}
          [] a = "u" -> {"r"}
          [] a = "d" -> {"r", "w"}
          [] a = "a" -> {"r"}]

\* ACTION_HIERARCHY.get(action, set()) finding no key at all.
Implied_none(a) == {}

\* ACTION_HIERARCHY.get(action, set())
Implied(a) == IF a \in ActionCodes THEN ACTION_HIERARCHY[a] ELSE {}

RECURSIVE ExpandLoop(_, _)
\* The while-loop of expand_actions: pop an action, add what it implies.
ExpandLoop(expanded, stack) ==
    IF stack = {} THEN expanded
    ELSE LET action == CHOOSE a \in stack : TRUE
             fresh  == Implied(action) \ expanded
         IN  ExpandLoop(expanded \cup fresh, (stack \ {action}) \cup fresh)

\* expand_actions returning the list it was given, the loop skipped.
expand_actions_raw(actions) == actions

expand_actions(actions) == ExpandLoop(actions, actions)

RECURSIVE CollapseLoop(_, _, _)
\* The for-loop of collapse_actions over ACTION_HIERARCHY.items(), from
\* position i on.  next(iter(implied & actions)) takes whichever element the
\* set iteration yields first, so every element is a possible outcome: the
\* result is the set of root sets the loop can end with.
CollapseLoop(actions, roots, i) ==
    IF i > Len(VALID_ACTIONS) THEN {roots}
    ELSE LET action == VALID_ACTIONS[i]
             common == ACTION_HIERARCHY[action] \cap actions
         IN  IF action \in roots /\ common # {}
             THEN UNION {CollapseLoop(actions, roots \ {c}, i + 1) : c \in common}
             ELSE CollapseLoop(actions, roots, i + 1)

\* collapse_actions discarding the action that implies in the place of the
\* action implied: what is left are the actions with nothing below them.
collapse_actions_weak(actions) ==
    {{a \in actions : Implied(a) \cap actions = {}}}

\* The root sets collapse_actions(actions) can return.
collapse_actions(actions) == CollapseLoop(actions, actions, 1)

(* ------------------------------- state -------------------------------- *)

VARIABLES
    roleGrants,   \* RoleGrant rows: [role, scope, actions, context]
    grants,       \* bag of Grant rows: [user, scope, role, user_group,
                  \*   actions, context, locked, created_by]
    userGroups,   \* UserGroup rows: <<user, group>>
    last,         \* the last operation run and what it returned
    writes,       \* number of direct writes to the store so far
    running       \* the call in progress and its position

vars == <<roleGrants, grants, userGroups, last, writes, running>>

\* No call is in progress.  A call in progress is known by its name, its
\* user, the slug it was given, for assign_group the position of its loop
\* and for assign_role the templates it has read.
NoCall == [op |-> "none", user |-> NoUser, slug |-> "no_slug", i |-> 0,
           rgs |-> {}]

\* What an operation leaves in last: its name, the exception it raised, the
\* counts or the boolean it returned, the outcome of an override ("deleted"
\* when it deleted a row, else "none"), for assign_group, override_grant
\* and check their arguments, and for the lattice functions the action set they returned.
Done(op) == [op |-> op, raised |-> "none", count |-> 0, users |-> 0,
             result |-> FALSE, outcome |-> "none", args |-> <<>>,
             value |-> {}]

\* The distinct rows of a table.
Rows(gs) == BagToSet(gs)

\* n copies of row g.
Copies(g, n) == IF n > 0 THEN [x \in {g} |-> n] ELSE EmptyBag

\* The rows of gs that are in the set S, with their multiplicity.
Only(gs, S) == [g \in Rows(gs) \cap S |-> gs[g]]

\* load_preset(): RoleGrant.objects.get_or_create for every preset entry;
\* the create goes through RoleGrant.save(), which expands the actions.
load_preset ==
    {[rg EXCEPT !.actions = expand_actions(rg.actions)] : rg \in PERMISSION_PRESET}

\* The store after load_preset(), before any assignment.
Init ==
    /\ roleGrants = load_preset
    /\ grants = EmptyBag
    /\ userGroups = {}
    /\ last = Done("init")
    /\ writes = 0
    /\ running = NoCall

(* --------------------------- template store --------------------------- *)

\* RoleGrant.objects.filter(role__slug=role)
TemplatesOf(role) == {rg \in roleGrants : rg.role = role}

\* RoleGrant.save() on an existing template whose actions were reassigned:
\* clean() re-expands the actions, then the row is written.
SaveRoleGrant(role, scope, raw) ==
    \E old \in roleGrants :
        /\ old.role = role
        /\ old.scope = scope
        /\ roleGrants' = (roleGrants \ {old}) \cup
                         {[old EXCEPT !.actions = expand_actions(raw)]}
        /\ last' = Done("save_role_grant")
        /\ UNCHANGED <<grants, userGroups, writes, running>>

(* -------------------------- assignment engine ------------------------- *)

\* Grant.objects.create in the place of update_or_create: a row is added
\* whether or not one matches.
update_or_create_create(gs, user, rg, role) ==
    IF BagCardinality(gs) >= MaxGrants
    THEN [grants |-> gs, raised |-> "bound"]
    ELSE [grants |-> gs (+)
                     Copies([user |-> user, scope |-> rg.scope,
                             role |-> role, user_group |-> NoUserGroup,
                             actions |-> expand_actions(rg.actions),
                             context |-> rg.context,
                             locked |-> FALSE, created_by |-> NoUser], 1),
          raised |-> "none"]

\* Grant.objects.get_or_create in the place of update_or_create: a matching
\* row is returned as it is, its actions and context are not refreshed.
update_or_create_get(gs, user, rg, role) ==
    LET matches == Only(gs, {g \in Rows(gs) : g.user = user /\ g.scope = rg.scope
                                                           /\ g.role = role})
    IN  IF BagCardinality(matches) > 1
        THEN [grants |-> gs, raised |-> "MultipleObjectsReturned"]
        ELSE IF BagCardinality(matches) = 1
        THEN [grants |-> gs, raised |-> "none"]
        ELSE IF BagCardinality(gs) >= MaxGrants
        THEN [grants |-> gs, raised |-> "bound"]
        ELSE [grants |-> gs (+)
                         Copies([user |-> user, scope |-> rg.scope,
                                 role |-> role, user_group |-> NoUserGroup,
                                 actions |-> expand_actions(rg.actions),
                                 context |-> rg.context,
                                 locked |-> FALSE, created_by |-> NoUser], 1),
              raised |-> "none"]

\* Grant.objects.update_or_create(user=, scope=, role=, defaults={actions,
\* context}): the lookup is on (user, scope, role) only.  One match is
\* updated, no match creates a row with the model defaults (locked = False,
\* user_group = NULL, created_by = NULL), several matches raise
\* MultipleObjectsReturned.
update_or_create(gs, user, rg, role) ==
    LET matches == Only(gs, {g \in Rows(gs) : g.user = user /\ g.scope = rg.scope
                                                           /\ g.role = role})
        actions == expand_actions(rg.actions)
    IN  IF BagCardinality(matches) > 1
        THEN [grants |-> gs, raised |-> "MultipleObjectsReturned"]
        ELSE IF BagCardinality(matches) = 1
        THEN LET g == CHOOSE m \in Rows(matches) : TRUE
             IN  [grants |-> (gs (-) Copies(g, 1)) (+)
                             Copies([g EXCEPT !.actions = actions,
                                              !.context = rg.context], 1),
                  raised |-> "none"]
        ELSE IF BagCardinality(gs) >= MaxGrants
        THEN [grants |-> gs, raised |-> "bound"]
        ELSE [grants |-> gs (+)
                         Copies([user |-> user, scope |-> rg.scope,
                                 role |-> role, user_group |-> NoUserGroup,
                                 actions |-> actions, context |-> rg.context,
                                 locked |-> FALSE, created_by |-> NoUser], 1),
              raised |-> "none"]

RECURSIVE AssignRoleLoop(_, _, _, _)
\* The for-loop of assign_role over the role's templates (Meta.ordering by
\* scope), from the i-th scope on.
AssignRoleLoop(gs, user, role, i) ==
    IF i > Len(ScopeOrder) THEN [grants |-> gs, raised |-> "none"]
    ELSE LET rgs == {rg \in TemplatesOf(role) : rg.scope = ScopeOrder[i]}
         IN  IF rgs = {} THEN AssignRoleLoop(gs, user, role, i + 1)
             ELSE LET r == update_or_create(gs, user, CHOOSE rg \in rgs : TRUE,
                                            role)
                  IN  IF r.raised # "none" THEN r
                      ELSE AssignRoleLoop(r.grants, user, role, i + 1)

\* assign_role(user, role, by=...) run on the store gs.  @transaction.atomic:
\* an exception leaves gs as it was.  The by argument is not used.
assign_role(gs, user, role) ==
    LET r == AssignRoleLoop(gs, user, role, 1)
    IN  IF r.raised # "none" THEN [grants |-> gs, raised |-> r.raised] ELSE r

AssignRole(user, role, by) ==
    LET r == assign_role(grants, user, role)
    IN  /\ r.raised # "bound"
        /\ grants' = r.grants
        /\ last' = [Done("assign_role") EXCEPT !.raised = r.raised]
        /\ UNCHANGED <<roleGrants, userGroups, writes, running>>

\* revoke_role without the user__pk filter: the rows of every user go.
revoke_role_all(gs, user, role) ==
    LET gone == Only(gs, {g \in Rows(gs) : g.role = role})
    IN  [grants |-> gs (-) gone, count |-> BagCardinality(gone)]

\* revoke_role: Grant.objects.filter(user__pk=, role__slug=).delete(); the
\* first element of the returned tuple is the number of rows deleted.
revoke_role(gs, user, role) ==
    LET gone == Only(gs, {g \in Rows(gs) : g.user = user /\ g.role = role})
    IN  [grants |-> gs (-) gone, count |-> BagCardinality(gone)]

RevokeRole(user, role) ==
    /\ grants' = revoke_role(grants, user, role).grants
    /\ last' = [Done("revoke_role") EXCEPT
                    !.count = revoke_role(grants, user, role).count]
    /\ UNCHANGED <<roleGrants, userGroups, writes, running>>

RECURSIVE AssignGroupLoop(_, _, _, _)
\* The for-loop of assign_group over _group.roles.all() (Meta.ordering by
\* slug), from the i-th role on.  Each assign_role is its own transaction:
\* when one raises, what the earlier ones wrote stays.
AssignGroupLoop(gs, user, group, i) ==
    IF i > Len(RoleOrder) THEN [grants |-> gs, raised |-> "none"]
    ELSE IF RoleOrder[i] \notin GroupRoles[group]
    THEN AssignGroupLoop(gs, user, group, i + 1)
    ELSE LET r == assign_role(gs, user, RoleOrder[i])
         IN  IF r.raised # "none" THEN r
             ELSE AssignGroupLoop(r.grants, user, group, i + 1)

\* assign_group(user, group) run on the store gs: Group.objects.get raises
\* Group.DoesNotExist for an unknown slug; no UserGroup row is written.
assign_group(gs, user, group) ==
    IF group \notin Groups
    THEN [grants |-> gs, raised |-> "GroupDoesNotExist"]
    ELSE AssignGroupLoop(gs, user, group, 1)

AssignGroup(user, group) ==
    LET r == assign_group(grants, user, group)
    IN  /\ r.raised # "bound"
        /\ grants' = r.grants
        /\ last' = [Done("assign_group") EXCEPT !.raised = r.raised,
                                                !.args = <<user, group>>]
        /\ UNCHANGED <<roleGrants, userGroups, writes, running>>

(* --------------------------- override engine -------------------------- *)

\* override_grant without the deletion of lines 104-107: a row with nothing
\* left is kept, with an empty action list.
override_row_keep(gs, grant, roots, remove_actions) ==
    LET expanded_remove == expand_actions(remove_actions)
        root_actions    == {a \in roots : a \notin expanded_remove}
    IN  IF root_actions = {}
        THEN [grants |-> (gs (-) Copies(grant, 1)) (+)
                         Copies([grant EXCEPT !.actions = {}], 1),
              raised |-> "none", outcome |-> "none"]
        ELSE [grants |-> gs, raised |-> "IntegrityError", outcome |-> "none"]

\* Lines 94-112 of override_grant applied to the row grant, the collapse
\* having returned roots.  When nothing is left the row is deleted.  Else
\* the row is given the re-expanded remainder and role = None and saved
\* with update_fields = [actions, role, updated_at]: Grant.role is a
\* ForeignKey without null=True, the UPDATE violates NOT NULL, save raises
\* IntegrityError and @transaction.atomic rolls the call back.  locked is
\* not among the fields written.
override_row(gs, grant, roots, remove_actions) ==
    LET expanded_remove == expand_actions(remove_actions)
        root_actions    == {a \in roots : a \notin expanded_remove}
    IN  IF root_actions = {}
        THEN [grants |-> gs (-) Copies(grant, 1), raised |-> "none",
              outcome |-> "deleted"]
        ELSE [grants |-> gs, raised |-> "IntegrityError", outcome |-> "none"]

\* Grant.objects.filter(user__pk=, scope=): the rows .first() chooses from.
\* They all have the same scope, the only ordering key, so which one comes
\* first is up to the database.
override_candidates(gs, user, scope) ==
    {g \in Rows(gs) : g.user = user /\ g.scope = scope}

\* The ways override_grant(user, scope, remove_actions) can end when run on
\* gs: a silent return when the user has no row on the scope (line 92),
\* else one way per row .first() can yield and per root set
\* collapse_actions can return.
override_grant(gs, user, scope, remove_actions) ==
    IF override_candidates(gs, user, scope) = {}
    THEN {[grants |-> gs, raised |-> "none", outcome |-> "none"]}
    ELSE UNION {{override_row(gs, grant, roots, remove_actions) :
                    roots \in collapse_actions(grant.actions)} :
                grant \in override_candidates(gs, user, scope)}

OverrideGrant(user, scope, remove_actions) ==
    \E r \in override_grant(grants, user, scope, remove_actions) :
        /\ grants' = r.grants
        /\ last' = [Done("override_grant") EXCEPT !.raised = r.raised,
                                                  !.outcome = r.outcome,
                                                  !.args = <<user, scope>>]
        /\ UNCHANGED <<roleGrants, userGroups, writes, running>>

(* ---------------------------- query engine ---------------------------- *)

\* check without the context filter of lines 151-152.
check_any_context(gs, user, scope, required, context) ==
    \E g \in Rows(gs) :
        /\ g.user = user
        /\ g.scope = scope
        /\ required \subseteq g.actions

\* check(user, scope, required, **context): a row of the user on the scope
\* whose actions contain required and, when a context is given, whose
\* context contains it.
check(gs, user, scope, required, context) ==
    \E g \in Rows(gs) :
        /\ g.user = user
        /\ g.scope = scope
        /\ required \subseteq g.actions
        /\ (context # {} => context \subseteq g.context)

Check(user, scope, required, context) ==
    /\ last' = [Done("check") EXCEPT
                    !.result = check(grants, user, scope, required, context),
                    !.args = <<user, scope, required, context>>]
    /\ UNCHANGED <<roleGrants, grants, userGroups, writes, running>>

(* ----------------------------- sync engine ---------------------------- *)

\* The template actions the row does not hold yet, in the place of the
\* template actions.
TemplateActions_missing(g) ==
    LET rgs == {rg \in roleGrants : rg.role = g.role /\ rg.scope = g.scope}
    IN  IF rgs = {} THEN g.actions
        ELSE (CHOOSE rg \in rgs : TRUE).actions \ g.actions

\* The live template actions for a row: RoleGrant of (row.role, row.scope);
\* a row without template keeps its actions.
TemplateActions(g) ==
    LET rgs == {rg \in roleGrants : rg.role = g.role /\ rg.scope = g.scope}
    IN  IF rgs = {} THEN g.actions ELSE (CHOOSE rg \in rgs : TRUE).actions

RECURSIVE Resync(_, _)
\* Rewrite the rows of gs that are in targets from their templates.
Resync(gs, targets) ==
    IF targets = {} THEN gs
    ELSE LET g == CHOOSE t \in targets : TRUE
             n == CopiesIn(g, gs)
         IN  Resync((gs (-) Copies(g, n)) (+)
                    Copies([g EXCEPT !.actions = TemplateActions(g)], n),
                    targets \ {g})

\* role_sync rewriting locked rows as well.
role_sync_targets_locked(gs, role, scope) ==
    {g \in Rows(gs) : /\ g.role = role
                      /\ g.user_group = NoUserGroup
                      /\ (scope # NoScope => g.scope = scope)}

\* role_sync rewriting the rows of group origin as well.
role_sync_targets_groups(gs, role, scope) ==
    {g \in Rows(gs) : /\ g.role = role
                      /\ ~g.locked
                      /\ (scope # NoScope => g.scope = scope)}

\* The rows role_sync(role, scope) rewrites: unlocked, without group
\* origin, referencing the role, on the scope when one is passed.
role_sync_targets(gs, role, scope) ==
    {g \in Rows(gs) : /\ g.role = role
                      /\ ~g.locked
                      /\ g.user_group = NoUserGroup
                      /\ (scope # NoScope => g.scope = scope)}

\* role_sync(role, scope) run on the store gs.
role_sync(gs, role, scope) ==
    IF role \notin Roles
    THEN [grants |-> gs, grants_updated |-> 0, raised |-> "RoleNotFoundError"]
    ELSE [grants |-> Resync(gs, role_sync_targets(gs, role, scope)),
          grants_updated |->
              BagCardinality(Only(gs, role_sync_targets(gs, role, scope))),
          raised |-> "none"]

RoleSync(role, scope) ==
    /\ grants' = role_sync(grants, role, scope).grants
    /\ last' = [Done("role_sync") EXCEPT
                    !.raised = role_sync(grants, role, scope).raised,
                    !.count = role_sync(grants, role, scope).grants_updated]
    /\ UNCHANGED <<roleGrants, userGroups, writes, running>>

\* The rows group_sync(group) rewrites: unlocked rows whose group origin is
\* a UserGroup of the group and whose role is a role of the group.
group_sync_targets(gs, ugs, group) ==
    {g \in Rows(gs) : /\ g.user_group \in ugs
                      /\ g.user_group[2] = group
                      /\ g.role \in GroupRoles[group]
                      /\ ~g.locked}

\* group_sync(group) run on the store gs with the UserGroup rows ugs.
group_sync(gs, ugs, group) ==
    IF group \notin Groups
    THEN [grants |-> gs, users_synced |-> 0, grants_updated |-> 0,
          raised |-> "GroupNotFoundError"]
    ELSE [grants |-> Resync(gs, group_sync_targets(gs, ugs, group)),
          users_synced |-> Cardinality({ug \in ugs : ug[2] = group}),
          grants_updated |->
              BagCardinality(Only(gs, group_sync_targets(gs, ugs, group))),
          raised |-> "none"]

GroupSync(group) ==
    /\ grants' = group_sync(grants, userGroups, group).grants
    /\ last' = [Done("group_sync") EXCEPT
                    !.raised = group_sync(grants, userGroups, group).raised,
                    !.users = group_sync(grants, userGroups, group).users_synced,
                    !.count = group_sync(grants, userGroups, group).grants_updated]
    /\ UNCHANGED <<roleGrants, userGroups, writes, running>>

(* --------------------------- group revocation ------------------------- *)

RECURSIVE Rewrite(_, _, _)
\* The store gs with every row g of targets replaced by its image under f.
Rewrite(gs, targets, f) ==
    IF targets = {} THEN gs
    ELSE LET g == CHOOSE t \in targets : TRUE
             n == CopiesIn(g, gs)
         IN  Rewrite((gs (-) Copies(g, n)) (+) Copies(f[g], n),
                     targets \ {g}, f)

\* Grant.user_group is declared on_delete=models.SET_NULL: deleting a
\* UserGroup row leaves its Grant rows in the store with user_group = NULL.
on_delete_user_group(gs, ug) ==
    Rewrite(gs, {g \in Rows(gs) : g.user_group = ug},
            [g \in Rows(gs) |-> [g EXCEPT !.user_group = NoUserGroup]])

\* revoke_group(user, group) run on the store gs with the UserGroup rows
\* ugs: delete the UserGroup row of (user, group); the store then applies
\* the on_delete rule of Grant.user_group.
revoke_group(gs, ugs, user, group) ==
    IF group \notin Groups
    THEN [grants |-> gs, userGroups |-> ugs, count |-> 0,
          raised |-> "GroupNotFoundError"]
    ELSE IF <<user, group>> \notin ugs
    THEN [grants |-> gs, userGroups |-> ugs, count |-> 0, raised |-> "none"]
    ELSE [grants |-> on_delete_user_group(gs, <<user, group>>),
          userGroups |-> ugs \ {<<user, group>>}, count |-> 1,
          raised |-> "none"]

RevokeGroup(user, group) ==
    LET r == revoke_group(grants, userGroups, user, group)
    IN  /\ grants' = r.grants
        /\ userGroups' = r.userGroups
        /\ last' = [Done("revoke_group") EXCEPT !.raised = r.raised,
                                                !.count = r.count]
        /\ UNCHANGED <<roleGrants, writes, running>>

(* ---------------------------- specification --------------------------- *)

Next ==
    \/ \E role \in Roles, scope \in EditedScopes, raw \in RawActionSets :
           SaveRoleGrant(role, scope, raw)
    \/ \E user \in Users, role \in RoleSlugs, by \in Actors :
           AssignRole(user, role, by)
    \/ \E user \in Users, role \in RoleSlugs : RevokeRole(user, role)
    \/ \E user \in Users, group \in GroupSlugs : AssignGroup(user, group)
    \/ \E user \in Users, group \in GroupSlugs : RevokeGroup(user, group)
    \/ \E user \in Users, scope \in Scopes, remove \in RemoveSets :
           OverrideGrant(user, scope, remove)
    \/ \E role \in RoleSlugs, scope \in Scopes \cup {NoScope} :
           RoleSync(role, scope)
    \/ \E group \in GroupSlugs : GroupSync(group)

Spec == Init /\ [][Next]_vars

(* ------------------- store written to directly ------------------------ *)

\* No operation of utils.py writes Grant.locked or Grant.user_group.  The
\* rows that carry them are written through the models, as the tests of the
\* sync engine do.

\* tests/permissions/test_role_sync.py, test_role_sync_ignores_group_grants:
\* UserGroup.objects.create(user, group), then Grant.objects.create(user,
\* scope, role, actions, user_group=ug, locked=...) with the actions of
\* the role's template; unique_user_scope_role rejects a second such row.
StoreCreateGroupGrant(user, group, rg, locked) ==
    /\ writes < MaxStoreWrites
    /\ rg.role \in GroupRoles[group]
    /\ BagCardinality(grants) < MaxGrants
    /\ \A g \in Rows(grants) :
          ~(g.user = user /\ g.scope = rg.scope /\ g.role = rg.role
                         /\ g.user_group = <<user, group>>)
    /\ userGroups' = userGroups \cup {<<user, group>>}
    /\ grants' = grants (+)
                 Copies([user |-> user, scope |-> rg.scope, role |-> rg.role,
                         user_group |-> <<user, group>>,
                         actions |-> rg.actions, context |-> rg.context,
                         locked |-> locked, created_by |-> NoUser], 1)
    /\ last' = Done("store_create_group_grant")
    /\ writes' = writes + 1
    /\ UNCHANGED <<roleGrants, running>>

\* tests/permissions/test_role_sync.py, test_role_sync_preserves_locked_grants:
\* grant.locked = True; grant.actions = ['r']; grant.save().
StoreLockGrant(grant) ==
    /\ writes < MaxStoreWrites
    /\ grants' = (grants (-) Copies(grant, 1)) (+)
                 Copies([grant EXCEPT !.locked = TRUE, !.actions = {"r"}], 1)
    /\ last' = Done("store_lock_grant")
    /\ writes' = writes + 1
    /\ UNCHANGED <<roleGrants, userGroups, running>>

NextStore ==
    \/ Next
    \/ \E user \in Users, group \in StoreGroups, rg \in roleGrants,
          locked \in BOOLEAN : StoreCreateGroupGrant(user, group, rg, locked)
    \/ \E grant \in Rows(grants) : StoreLockGrant(grant)

SpecStore == Init /\ [][NextStore]_vars

(* ------------------- store written and queried ------------------------ *)

\* check(user, scope, required, role=role), also what cache_check(user,
\* scope, actions, role) calls: check has no role parameter, so the keyword
\* is collected by **context and the filter is context__contains =
\* {"role": role}.
CheckRole(user, scope, required, role) ==
    /\ last' = [Done("check") EXCEPT
                    !.result = check(grants, user, scope, required,
                                     {<<"role", role>>}),
                    !.args = <<user, scope, required, {<<"role", role>>}>>]
    /\ UNCHANGED <<roleGrants, grants, userGroups, writes, running>>

NextQuery ==
    \/ Next
    \/ \E user \in Users, scope \in Scopes, required \in RequiredSets,
          context \in FilterContexts : Check(user, scope, required, context)
    \/ \E user \in Users, scope \in Scopes, required \in RequiredSets,
          role \in RoleSlugs : CheckRole(user, scope, required, role)

SpecQuery == Init /\ [][NextQuery]_vars

(* ------------------------- disjunctive queries ------------------------ *)

\* A parsed permission without role segment.
NoRole == "no_role"

\* Candidate action lists handed to any_action_check.
CandidateSets == {{"r", "w", "d"}, {"w", "d"}, {"d"}}

\* The argument tuples *str_perms handed to any_permission_check.  A
\* permission string is the sequence of its lexical tokens: the scope, ":",
\* one token per action letter, optionally ":" and a role slug, optionally
\* "?" and key "=" value pairs separated by "&".  The strings used are
\* "articles:r", "articles:d", "comments:rw", "invoices:w",
\* "comments:r?tenant_id=123" and "articles:r:editor".
PermissionLists ==
    {<<>>,
     <<<<"articles", ":", "r">>>>,
     <<<<"invoices", ":", "w">>, <<"articles", ":", "r">>>>,
     <<<<"invoices", ":", "w">>, <<"articles", ":", "d">>>>,
     <<<<"comments", ":", "r", "w">>, <<"invoices", ":", "w">>>>,
     <<<<"comments", ":", "r", "?", "tenant_id", "=", "123">>>>,
     <<<<"articles", ":", "r", ":", "editor">>>>}

\* Position of the first token tok in seq, 0 when there is none.
IndexOf(seq, tok) ==
    IF \E i \in 1..Len(seq) : seq[i] = tok
    THEN CHOOSE i \in 1..Len(seq) :
             seq[i] = tok /\ \A j \in 1..(i - 1) : seq[j] # tok
    ELSE 0

\* A query value: a number when it is written in digits, else the string.
QueryValue(tok) ==
    CASE tok = "123" -> 123
      [] tok = "456" -> 456
      [] OTHER -> tok

RECURSIVE ParseQuery(_)
\* key=value&key=value... as a flat map.
ParseQuery(query) ==
    IF Len(query) < 3 THEN {}
    ELSE {<<query[1], QueryValue(query[3])>>}
             \cup ParseQuery(SubSeq(query, 5, Len(query)))

\* parse_permission(expr): scope ":" actions [":" role] ["?" query].
parse_permission(expr) ==
    LET q      == IndexOf(expr, "?")
        head   == IF q = 0 THEN expr ELSE SubSeq(expr, 1, q - 1)
        query  == IF q = 0 THEN <<>> ELSE SubSeq(expr, q + 1, Len(expr))
        c1     == IndexOf(head, ":")
        rest   == SubSeq(head, c1 + 1, Len(head))
        c2     == IndexOf(rest, ":")
        codes  == IF c2 = 0 THEN rest ELSE SubSeq(rest, 1, c2 - 1)
        failed == [raised |-> "MalformedPermissionError", scope |-> NoScope,
                   actions |-> {}, role |-> NoRole, context |-> NoContext]
    IN  IF c1 # 2 \/ Len(codes) = 0 THEN failed
        ELSE [raised  |-> "none",
              scope   |-> head[1],
              actions |-> {codes[i] : i \in 1..Len(codes)},
              role    |-> IF c2 = 0 \/ c2 = Len(rest) THEN NoRole
                          ELSE rest[c2 + 1],
              context |-> ParseQuery(query)]

\* check on a parsed permission: check(user, scope, actions, **context),
\* with role=role among the keywords when the string names a role.
check_parsed(gs, user, p) ==
    check(gs, user, p.scope, p.actions,
          p.context \cup (IF p.role = NoRole THEN {} ELSE {<<"role", p.role>>}))

\* any_action_check asking for every candidate, as check does.
any_action_check_all(gs, user, scope, required) ==
    \E g \in Rows(gs) :
        /\ g.user = user
        /\ g.scope = scope
        /\ required \subseteq g.actions

\* any_action_check(user, scope, required) without role or context: a row
\* of the user on the scope whose actions overlap required.
any_action_check(gs, user, scope, required) ==
    \E g \in Rows(gs) :
        /\ g.user = user
        /\ g.scope = scope
        /\ g.actions \cap required # {}

AnyActionCheck(user, scope, required) ==
    /\ last' = [Done("any_action_check") EXCEPT
                    !.result = any_action_check(grants, user, scope, required),
                    !.args = <<user, scope, required>>]
    /\ UNCHANGED <<roleGrants, grants, userGroups, writes, running>>

\* any_permission_check(user, *str_perms): check on some parsed string.
any_permission_check(gs, user, str_perms) ==
    \E i \in 1..Len(str_perms) :
        check_parsed(gs, user, parse_permission(str_perms[i]))

AnyPermissionCheck(user, str_perms) ==
    /\ last' = [Done("any_permission_check") EXCEPT
                    !.result = any_permission_check(grants, user, str_perms),
                    !.args = <<user, str_perms>>]
    /\ UNCHANGED <<roleGrants, grants, userGroups, writes, running>>

NextAnyQuery ==
    \/ Next
    \/ \E user \in Users, scope \in Scopes, required \in CandidateSets :
          AnyActionCheck(user, scope, required)
    \/ \E user \in Users, str_perms \in PermissionLists :
          AnyPermissionCheck(user, str_perms)

SpecAnyQuery == Init /\ [][NextAnyQuery]_vars

(* ------------------ assign_group, one role at a time ------------------ *)

\* assign_group carries no @transaction.atomic: every assign_role of its
\* loop commits on its own, and other calls run between two of them.

\* Position in RoleOrder of the first role of the group from position i on,
\* Len(RoleOrder) + 1 when there is none: the next item of
\* _group.roles.all().
NextMember(group, i) ==
    LET later == {j \in i..Len(RoleOrder) : RoleOrder[j] \in GroupRoles[group]}
    IN  IF later = {} THEN Len(RoleOrder) + 1
        ELSE CHOOSE j \in later : \A k \in later : j <= k

\* assign_group(user, group) is called: Group.objects.get(slug=group) has
\* found the group and the loop is about to take its first role.
AssignGroupBegin(user, group) ==
    /\ running = NoCall
    /\ running' = [NoCall EXCEPT !.op = "assign_group", !.user = user,
                                 !.slug = group, !.i = NextMember(group, 1)]
    /\ UNCHANGED <<roleGrants, grants, userGroups, last, writes>>

\* One turn of the loop of the call in progress: assign_role for the role
\* at the position, committed when it returns, the call ended with its
\* exception when it raises; past the last role the call returns.
AssignGroupStep ==
    /\ running.op = "assign_group"
    /\ IF running.i > Len(RoleOrder)
       THEN /\ running' = NoCall
            /\ last' = [Done("assign_group") EXCEPT
                            !.args = <<running.user, running.slug>>]
            /\ UNCHANGED <<roleGrants, grants, userGroups, writes>>
       ELSE LET r == assign_role(grants, running.user, RoleOrder[running.i])
            IN  /\ r.raised # "bound"
                /\ grants' = r.grants
                /\ IF r.raised = "none"
                   THEN /\ running' = [running EXCEPT
                               !.i = NextMember(running.slug, running.i + 1)]
                        /\ UNCHANGED last
                   ELSE /\ running' = NoCall
                        /\ last' = [Done("assign_group") EXCEPT
                                        !.raised = r.raised,
                                        !.args = <<running.user, running.slug>>]
                /\ UNCHANGED <<roleGrants, userGroups, writes>>

(* ------------------ assign_role, statement by statement --------------- *)

\* @transaction.atomic undoes the call when it raises; it does not keep
\* other transactions from committing between two statements of the call.
\* What the call writes is visible to the others when it commits.

\* assign_role(user, role) has read the templates of the role and, for each
\* of them, update_or_create has looked up (user, scope, role) and found no
\* row: every template is on the create path.
AssignRoleGet(user, role) ==
    /\ running = NoCall
    /\ TemplatesOf(role) # {}
    /\ \A rg \in TemplatesOf(role) :
           \A g \in Rows(grants) :
               ~(g.user = user /\ g.scope = rg.scope /\ g.role = role)
    /\ running' = [NoCall EXCEPT !.op = "assign_role", !.user = user,
                                 !.slug = role, !.rgs = TemplatesOf(role)]
    /\ UNCHANGED <<roleGrants, grants, userGroups, last, writes>>

\* The rows the call in progress creates, one per template read.
CreatedRows ==
    {[user |-> running.user, scope |-> rg.scope, role |-> running.slug,
      user_group |-> NoUserGroup, actions |-> expand_actions(rg.actions),
      context |-> rg.context, locked |-> FALSE, created_by |-> NoUser] :
        rg \in running.rgs}

RECURSIVE InsertRows(_, _)
\* INSERT of every row of rows into gs.
InsertRows(gs, rows) ==
    IF rows = {} THEN gs
    ELSE LET g == CHOOSE r \in rows : TRUE
         IN  InsertRows(gs (+) Copies(g, 1), rows \ {g})

\* The creates of the call in progress and its commit.  user_group is NULL
\* in the rows created and a unique constraint holds NULLs distinct, so
\* unique_user_scope_role lets the INSERT through whatever was committed
\* since the lookups.
AssignRoleCommit ==
    /\ running.op = "assign_role"
    /\ BagCardinality(grants) + Cardinality(running.rgs) <= MaxGrants
    /\ grants' = InsertRows(grants, CreatedRows)
    /\ running' = NoCall
    /\ last' = Done("assign_role")
    /\ UNCHANGED <<roleGrants, userGroups, writes>>

NextConcurrent ==
    \/ Next
    \/ \E user \in Users, scope \in Scopes, required \in RequiredSets :
          Check(user, scope, required, NoContext)
    \/ \E user \in Users, group \in Groups : AssignGroupBegin(user, group)
    \/ AssignGroupStep
    \/ \E user \in Users, role \in Roles : AssignRoleGet(user, role)
    \/ AssignRoleCommit

SpecConcurrent == Init /\ [][NextConcurrent]_vars

(* ------------------- the lattice functions alone ---------------------- *)

\* A code that is not a key of ACTION_HIERARCHY.
UnknownAction == "x"

\* The action lists handed to expand_actions and collapse_actions, as sets:
\* every selection of the five codes and the unknown one.
ActionInputs == SUBSET (ActionCodes \cup {UnknownAction})

\* An action list is in hand (last.value); the store is as Init leaves it.
InitLattice ==
    /\ roleGrants = load_preset
    /\ grants = EmptyBag
    /\ userGroups = {}
    /\ writes = 0
    /\ running = NoCall
    /\ \E actions \in ActionInputs :
           last = [Done("input") EXCEPT !.value = actions]

\* expand_actions(actions) on the list in hand.  The sorted list it returns
\* is kept as the set of its elements.  No statement of it raises.
ExpandActions ==
    /\ last' = [Done("expand_actions") EXCEPT
                    !.args = <<last.value>>,
                    !.value = expand_actions(last.value)]
    /\ UNCHANGED <<roleGrants, grants, userGroups, writes, running>>

\* collapse_actions(actions) on the list in hand, with one of the root sets
\* the set iteration can produce.  No statement of it raises.
CollapseActions ==
    /\ \E roots \in collapse_actions(last.value) :
           last' = [Done("collapse_actions") EXCEPT
                       !.args = <<last.value>>,
                       !.value = roots]
    /\ UNCHANGED <<roleGrants, grants, userGroups, writes, running>>

NextLattice ==
    \/ ExpandActions
    \/ CollapseActions

SpecLattice == InitLattice /\ [][NextLattice]_vars

(* ======================= properties of the engine ===================== *)

\* The rows of gs held by user on scope.
GrantsOn(gs, user, scope) == {g \in Rows(gs) : g.user = user /\ g.scope = scope}

\* The rows of gs under the key (user, scope, role, no group).
Keyed(gs, user, scope, role) ==
    {g \in GrantsOn(gs, user, scope) : g.role = role /\ g.user_group = NoUserGroup}

C2_CheckIffGrantCovers ==
    last.op = "check" =>
        /\ last.raised = "none"
        /\ last.result =
               (\E g \in Rows(grants) :
                   /\ g.user = last.args[1]
                   /\ g.scope = last.args[2]
                   /\ \A a \in last.args[3] : a \in g.actions
                   /\ \A kv \in last.args[4] : kv \in g.context)

\* C2 witness: check(u1, comments, {r}, tenant_id=456) has answered false
\* although u1 holds a Grant on comments with r, because that Grant's
\* context is tenant_id=123.
C2_Witness ==
    /\ last.op = "check"
    /\ last.args = <<"u1", "comments", {"r"}, {<<"tenant_id", 456>>}>>
    /\ ~last.result
    /\ \E g \in GrantsOn(grants, "u1", "comments") :
           "r" \in g.actions /\ g.context = {<<"tenant_id", 123>>}

\* C3: override_grant(P, S, [w]) on a Grant whose actions are {r, w} leaves
\* that Grant in the store with exactly {r}: the Grant is not deleted.
C3_OverrideKeepsRead ==
    [][\A user \in Users, scope \in Scopes :
          (/\ last'.op = "override_grant"
           /\ OverrideGrant(user, scope, {"w"})
           /\ GrantsOn(grants, user, scope) # {}
           /\ \A g \in GrantsOn(grants, user, scope) : g.actions = {"r", "w"}) =>
              /\ BagCardinality(grants') = BagCardinality(grants)
              /\ \E g \in GrantsOn(grants', user, scope) : g.actions = {"r"}]_vars

\* C4: after every override_grant call that leaves the Grant in place, the
\* Grant it acted on is locked and references no role.
C4_OverrideLocksAndDetaches ==
    [][\A user \in Users, scope \in Scopes, remove_actions \in RemoveSets :
          (/\ last'.op = "override_grant"
           /\ OverrideGrant(user, scope, remove_actions)
           /\ GrantsOn(grants, user, scope) # {}
           /\ BagCardinality(grants') = BagCardinality(grants)) =>
              \E g \in GrantsOn(grants', user, scope) :
                  g.locked /\ g.role \notin Roles]_vars

\* C5: an override_grant call whose remove list, once expanded, covers
\* every action of the Grant deletes that Grant: the store has one Grant of the principal on the
\* scope less, and no Grant with an empty action set is left in its place.
C5_OverrideDeletesEmptied ==
    [][\A user \in Users, scope \in Scopes, remove_actions \in RemoveSets :
          (/\ last'.op = "override_grant"
           /\ OverrideGrant(user, scope, remove_actions)
           /\ GrantsOn(grants, user, scope) # {}
           /\ \A g \in GrantsOn(grants, user, scope) :
                  g.actions \subseteq expand_actions(remove_actions)) =>
              /\ last'.outcome = "deleted"
              /\ \E g \in GrantsOn(grants, user, scope) :
                     grants' = grants (-) Copies(g, 1)
              /\ \A g \in Rows(grants') : g.actions # {}]_vars

\* C5 witness: an override_grant call has deleted a Grant, the only one the
\* store held.
C5_Witness ==
    /\ last.op = "override_grant"
    /\ last.outcome = "deleted"
    /\ grants = EmptyBag

\* The locked rows of gs, with their multiplicities.
LockedGrants(gs) == Only(gs, {g \in Rows(gs) : g.locked})

\* The row g with the actions of the live template of its role and scope.
Resynced(g) ==
    {[g EXCEPT !.actions = rg.actions] :
        rg \in {t \in roleGrants : t.role = g.role /\ t.scope = g.scope}}

\* C6: a locked Grant is never rewritten by role_sync or group_sync and is
\* not counted in grants_updated, whatever the RoleGrant's actions have
\* become, while every unlocked Grant without group origin that references
\* the synced role, whoever its principal, gets the template's actions.
C6_SyncSkipsLocked ==
    [][/\ \A role \in RoleSlugs, scope \in Scopes \cup {NoScope} :
             (last'.op = "role_sync" /\ RoleSync(role, scope)) =>
                 /\ LockedGrants(grants') = LockedGrants(grants)
                 /\ last'.count <= BagCardinality(grants)
                                   - BagCardinality(LockedGrants(grants))
                 /\ scope = NoScope =>
                        \A g \in Rows(grants) :
                            (g.role = role /\ ~g.locked
                                          /\ g.user_group = NoUserGroup) =>
                                \E h \in Resynced(g) : h \in Rows(grants')
       /\ \A group \in GroupSlugs :
             (last'.op = "group_sync" /\ GroupSync(group)) =>
                 /\ LockedGrants(grants') = LockedGrants(grants)
                 /\ last'.count <= BagCardinality(grants)
                                   - BagCardinality(LockedGrants(grants))]_vars

\* C6 witness: role_sync(viewer) has run after the viewer template grew:
\* the locked viewer Grant of u1 still has the actions it was locked with,
\* the unlocked viewer Grant of u2 has the template's, and one Grant was
\* counted.
C6_Witness ==
    /\ last.op = "role_sync"
    /\ last.count = 1
    /\ \E rg \in TemplatesOf("viewer") :
           /\ rg.scope = "articles"
           /\ rg.actions # {"r"}
           /\ \E g \in Keyed(grants, "u1", "articles", "viewer") :
                  g.locked /\ g.actions = {"r"}
           /\ \E g \in Keyed(grants, "u2", "articles", "viewer") :
                  ~g.locked /\ g.actions = rg.actions

\* The rows role_sync(role, scope) is to rewrite: the unlocked Grants
\* without group origin that reference the role, on the scope when one is
\* passed.
SyncedByRole(role, scope) ==
    {g \in Rows(grants) : /\ g.role = role
                          /\ ~g.locked
                          /\ g.user_group = NoUserGroup
                          /\ scope \in {NoScope, g.scope}}

\* C7: role_sync(R, scope?) rewrites exactly the unlocked Grants without
\* group origin that reference R, on the scope when one is passed: each
\* gets the actions of the current RoleGrant, their number is reported as
\* grants_updated, and every other Grant (group origin, other scope, other
\* role, locked) stays as it was.
C7_RoleSyncRewritesOwnGrants ==
    [][\A role \in Roles, scope \in Scopes \cup {NoScope} :
          (last'.op = "role_sync" /\ RoleSync(role, scope)) =>
              /\ last'.count =
                     BagCardinality(Only(grants, SyncedByRole(role, scope)))
              /\ BagCardinality(grants') = BagCardinality(grants)
              /\ \A g \in Rows(grants) \ SyncedByRole(role, scope) :
                     CopiesIn(g, grants') >= CopiesIn(g, grants)
              /\ \A g \in SyncedByRole(role, scope) :
                     \E h \in Resynced(g) :
                         CopiesIn(h, grants') >= CopiesIn(g, grants)]_vars

\* C7 witness: role_sync(viewer) has run after the viewer template grew:
\* it counted one Grant, the viewer Grant of u1 without group origin, which
\* has the template's actions; the viewer Grant u2 holds through the staff
\* group still has the old ones.
C7_Witness ==
    /\ last.op = "role_sync"
    /\ last.count = 1
    /\ \E rg \in TemplatesOf("viewer") :
           /\ rg.scope = "articles"
           /\ rg.actions # {"r"}
           /\ \E g \in Keyed(grants, "u1", "articles", "viewer") :
                  ~g.locked /\ g.actions = rg.actions
           /\ \E g \in GrantsOn(grants, "u2", "articles") :
                  /\ g.role = "viewer"
                  /\ g.user_group = <<"u2", "staff">>
                  /\ ~g.locked
                  /\ g.actions = {"r"}

\* C8: group_sync(G) gives every unlocked Grant that originates from a
\* UserGroup of G the actions of the live template and returns users_synced
\* and grants_updated: run once assign_group(P, G) has completed, it counts
\* P among the principals synced, counts P's Grants of the group among the
\* Grants updated, and leaves them with the template's actions.
C8_GroupSyncReachesAssigned ==
    [][\A group \in Groups :
          (last'.op = "group_sync" /\ GroupSync(group)) =>
              /\ \A g \in Rows(grants') :
                     (~g.locked /\ g.user_group \in userGroups
                                /\ g.user_group[2] = group) =>
                         g \in Resynced(g)
              /\ (/\ last.op = "assign_group"
                  /\ last.raised = "none"
                  /\ last.args[2] = group) =>
                     /\ last'.users >= 1
                     /\ last'.count >= 1
                     /\ \E g \in Rows(grants') :
                            /\ g.user = last.args[1]
                            /\ g.user_group = <<g.user, group>>
                            /\ g \in Resynced(g)]_vars

\* C9: revoke_role(P, R) deletes exactly the Grants of P that reference R
\* and have no group origin and returns their number; every other Grant,
\* those of group origin included, stays in the store unchanged.
C9_RevokeRoleSparesGroupGrants ==
    [][\A user \in Users, role \in RoleSlugs :
          (last'.op = "revoke_role" /\ RevokeRole(user, role)) =>
              LET gone == Only(grants, {g \in Rows(grants) :
                                          /\ g.user = user
                                          /\ g.role = role
                                          /\ g.user_group = NoUserGroup})
              IN  /\ grants' = grants (-) gone
                  /\ last'.count = BagCardinality(gone)]_vars

\* C10: revoke_group(P, G) removes the UserGroup (P, G) and every Grant
\* whose group origin is that UserGroup, locked or not: none of them is in
\* the store afterwards, under any key.
C10_RevokeGroupDropsGrants ==
    [][\A user \in Users, group \in Groups :
          (/\ last'.op = "revoke_group"
           /\ RevokeGroup(user, group)
           /\ <<user, group>> \in userGroups) =>
              /\ <<user, group>> \notin userGroups'
              /\ BagCardinality(grants') = BagCardinality(grants) -
                     BagCardinality(Only(grants, {g \in Rows(grants) :
                                            g.user_group = <<user, group>>}))
              /\ \A g \in Rows(grants') : g.user_group # <<user, group>>]_vars

\* C11: assign_group(P, G), when P has no UserGroup for G, creates the
\* UserGroup (P, G) and, for every Role of G and every RoleGrant of that
\* Role, a Grant keyed (P, scope, role, group origin = that UserGroup),
\* unlocked and with the template's actions.
C11_AssignGroupCreatesUserGroup ==
    [][\A user \in Users, group \in Groups :
          (/\ last'.op = "assign_group"
           /\ AssignGroup(user, group)
           /\ <<user, group>> \notin userGroups) =>
              /\ last'.raised = "none"
              /\ <<user, group>> \in userGroups'
              /\ \A role \in GroupRoles[group] : \A rg \in TemplatesOf(role) :
                     \E g \in GrantsOn(grants', user, rg.scope) :
                         /\ g.role = role
                         /\ g.user_group = <<user, group>>
                         /\ ~g.locked
                         /\ g.actions = rg.actions]_vars

\* C12: assign_group(P, G) called when the UserGroup (P, G) exists fails
\* with AlreadyAssignedError and leaves the UserGroups and the Grants
\* unchanged.
C12_AssignGroupTwiceFails ==
    [][\A user \in Users, group \in Groups :
          (/\ last'.op = "assign_group"
           /\ AssignGroup(user, group)
           /\ <<user, group>> \in userGroups) =>
              /\ last'.raised = "AlreadyAssignedError"
              /\ grants' = grants
              /\ userGroups' = userGroups]_vars

\* C13: assign_role(P, slug) and revoke_role(P, slug) with a slug that
\* names no Role fail with RoleNotFoundError and leave the Grants
\* unchanged; they do not return normally.
C13_UnknownRoleFails ==
    [][\A user \in Users, role \in RoleSlugs \ Roles :
          (/\ last'.op \in {"assign_role", "revoke_role"}
           /\ \/ \E by \in Actors : AssignRole(user, role, by)
              \/ RevokeRole(user, role)) =>
              /\ last'.raised = "RoleNotFoundError"
              /\ grants' = grants]_vars

\* C14: override_grant(P, S, remove) called when P has no Grant on S fails
\* with GrantNotFoundError and leaves the Grants unchanged; it does not
\* return normally.
C14_OverrideWithoutGrantFails ==
    [][\A user \in Users, scope \in Scopes, remove_actions \in RemoveSets :
          (/\ last'.op = "override_grant"
           /\ OverrideGrant(user, scope, remove_actions)
           /\ GrantsOn(grants, user, scope) = {}) =>
              /\ last'.raised = "GrantNotFoundError"
              /\ grants' = grants]_vars

\* C15: assign_role(P, R, by = actor) records the actor as created_by of
\* every Grant it creates for P.
C15_AssignRoleRecordsActor ==
    [][\A user \in Users, role \in Roles, by \in Actors :
          (/\ last'.op = "assign_role"
           /\ last'.raised = "none"
           /\ AssignRole(user, role, by)) =>
              \A rg \in TemplatesOf(role) :
                  Keyed(grants, user, rg.scope, role) = {} =>
                      \A g \in Keyed(grants', user, rg.scope, role) :
                          g.created_by = by]_vars

C17_ExpandIsClosure ==
    LET Edges == {<<"w", "r">>, <<"u", "r">>, <<"d", "w">>, <<"a", "r">>}
        Step(S) == S \cup {e[2] : e \in {e \in Edges : e[1] \in S}}
        Closure(S) == Step(Step(Step(Step(S))))
        roots == last.args[1]
    IN  (last.op = "expand_actions" /\ roots \subseteq ActionCodes) =>
            /\ last.value = Closure(roots)
            /\ roots = {"w"} => last.value = {"r", "w"}
            /\ roots = {"d"} => last.value = {"r", "w", "d"}
            /\ roots = {"u"} => last.value = {"r", "u"}
            /\ roots = {"a"} => last.value = {"a", "r"}

\* C17 witness: expand_actions(['d']) has returned r, w and d.
C17_Witness ==
    /\ last.op = "expand_actions"
    /\ last.args = <<{"d"}>>
    /\ last.value = {"r", "w", "d"}

\* C18: expand and collapse reject a list holding a code outside
\* {r,w,u,d,a} with InvalidActionError, the only error they raise, and no
\* unknown code reaches the result.
C18_UnknownActionRejected ==
    /\ last.op \in {"expand_actions", "collapse_actions"} =>
           last.raised \in {"none", "InvalidActionError"}
    /\ (/\ last.op \in {"expand_actions", "collapse_actions"}
        /\ ~(last.args[1] \subseteq ActionCodes)) =>
            /\ last.raised = "InvalidActionError"
            /\ last.value \subseteq ActionCodes

\* C19: check(P, S, required, role=R) is true only if P holds a Grant on S
\* whose role is R and whose actions contain required; when P holds the
\* editor Grant on articles, check(P, articles, {r}, role=editor) is true,
\* and check(P, articles, {r}, role=nonexistent) is false.
C19_CheckWithRoleFilter ==
    [][\A user \in Users, scope \in Scopes, required \in RequiredSets,
          role \in RoleSlugs :
          (last'.op = "check" /\ CheckRole(user, scope, required, role)) =>
              LET matching == {g \in GrantsOn(grants, user, scope) :
                                  g.role = role /\ required \subseteq g.actions}
              IN  /\ last'.result => matching # {}
                  /\ (/\ scope = "articles"
                      /\ required = {"r"}
                      /\ role = "editor"
                      /\ Keyed(grants, user, "articles", "editor") # {}) =>
                          last'.result
                  /\ role = "nonexistent" => ~last'.result]_vars

C21_GrantActionsClosed ==
    LET Edges == {<<"w", "r">>, <<"u", "r">>, <<"d", "w">>, <<"a", "r">>}
    IN  \A g \in Rows(grants) :
            /\ \A e \in Edges : e[1] \in g.actions => e[2] \in g.actions
            /\ expand_actions(g.actions) = g.actions
            /\ "w" \in g.actions => "r" \in g.actions
            /\ "d" \in g.actions => {"w", "r"} \subseteq g.actions

\* C21 witness: a Grant materialised from a template saved with the raw
\* list ['d'] holds r, w and d.
C21_Witness ==
    \E g \in Rows(grants) : g.actions = {"r", "w", "d"}

\* C22: collapse(x) returns the minimal root set of x, the same on every
\* call: no action of the result is implied, directly or transitively, by
\* another action of the result; collapse({r,w,d}) = {d},
\* collapse({r,w}) = {w}, collapse({r,u}) = {u}, collapse({a,r}) = {a}.
C22_CollapseIsMinimal ==
    LET Edges == {<<"w", "r">>, <<"u", "r">>, <<"d", "w">>, <<"a", "r">>}
        Step(S) == S \cup {e[2] : e \in {e \in Edges : e[1] \in S}}
        Below(a) == Step(Step(Step(Step({a})))) \ {a}
        x == last.args[1]
    IN  (last.op = "collapse_actions" /\ x \subseteq ActionCodes) =>
            /\ \A a \in last.value, b \in last.value : b \notin Below(a)
            /\ Cardinality(collapse_actions(x)) = 1
            /\ x = {"r", "w", "d"} => last.value = {"d"}
            /\ x = {"r", "w"} => last.value = {"w"}
            /\ x = {"r", "u"} => last.value = {"u"}
            /\ x = {"a", "r"} => last.value = {"a"}

\* C23: for every non-empty action set x over {r,w,u,d,a},
\* expand(expand(x)) = expand(x) and expand(collapse(x)) = expand(x):
\* whatever collapse drops, the roots it keeps regenerate.
C23_ClosureIdempotence ==
    LET x == last.args[1]
    IN  /\ (last.op = "expand_actions" /\ x # {} /\ x \subseteq ActionCodes) =>
               expand_actions(last.value) = last.value
        /\ (last.op = "collapse_actions" /\ x # {} /\ x \subseteq ActionCodes) =>
               expand_actions(last.value) = expand_actions(x)

\* C23 witness: collapse_actions(['r','w','d']) has returned w and d, the
\* outcome in which only r was discarded, and expanding them gives r, w, d.
C23_Witness ==
    /\ last.op = "collapse_actions"
    /\ last.args = <<{"r", "w", "d"}>>
    /\ last.value = {"w", "d"}
    /\ expand_actions(last.value) = {"r", "w", "d"}

\* C24: assign_role, assign_group, override_grant, role_sync and group_sync
\* take effect atomically.  For assign_group: in no state between two
\* turns of its loop, the states a concurrent check reads and the states a
\* failure of the next assign_role leaves behind, are the Grants of a role
\* of the group already written while a Grant of a later role of the group
\* is missing.
C24_AssignGroupAtomic ==
    LET Written(user, role) ==
            /\ TemplatesOf(role) # {}
            /\ \A rg \in TemplatesOf(role) :
                   Keyed(grants, user, rg.scope, role) # {}
        Missing(user, role) ==
            \E rg \in TemplatesOf(role) :
                Keyed(grants, user, rg.scope, role) = {}
    IN  running.op = "assign_group" =>
            ~ \E i \in 1..Len(RoleOrder), j \in 1..Len(RoleOrder) :
                  /\ i < running.i
                  /\ j >= running.i
                  /\ {RoleOrder[i], RoleOrder[j]} \subseteq GroupRoles[running.slug]
                  /\ Written(running.user, RoleOrder[i])
                  /\ Missing(running.user, RoleOrder[j])

\* C25: override_grant and the syncs settle their race through the locked
\* flag: once override_grant(P, S, remove) has run on a Grant and left it in
\* the store, a Grant of P on S is locked, and the role_sync that reads it
\* next finds it locked and does not write it.
C25_SyncAfterOverrideSeesLocked ==
    [][\A role \in Roles, scope \in Scopes \cup {NoScope} :
          (/\ last.op = "override_grant"
           /\ last.outcome # "deleted"
           /\ GrantsOn(grants, last.args[1], last.args[2]) # {}
           /\ last'.op = "role_sync"
           /\ RoleSync(role, scope)) =>
              \E g \in GrantsOn(grants, last.args[1], last.args[2]) :
                  /\ g.locked
                  /\ CopiesIn(g, grants') = CopiesIn(g, grants)]_vars

C28_OverrideRevokesRemoved ==
    [][\A user \in Users, scope \in Scopes, remove_actions \in RemoveSets :
          (/\ last'.op = "override_grant"
           /\ last'.raised = "none"
           /\ OverrideGrant(user, scope, remove_actions)) =>
              \A a \in remove_actions :
                  ~check(grants', user, scope, {a}, NoContext)]_vars

\* C29: assign_role does not rewrite a Grant override_grant has customised:
\* when override_grant(P, S, remove) has run on a Grant and left it in the
\* store, the assign_role(P, R) that follows finds a role-less Grant of P
\* on S, leaves it as it is, and has the template of R on S materialised
\* as a Grant of its own under (P, S, R, no group).
C29_AssignRoleSparesCustomGrant ==
    [][\A user \in Users, role \in Roles, by \in Actors :
          (/\ last.op = "override_grant"
           /\ last.outcome # "deleted"
           /\ last.args[1] = user
           /\ GrantsOn(grants, user, last.args[2]) # {}
           /\ last'.op = "assign_role"
           /\ last'.raised = "none"
           /\ AssignRole(user, role, by)) =>
              /\ \E g \in GrantsOn(grants, user, last.args[2]) :
                     /\ g.role \notin Roles
                     /\ CopiesIn(g, grants') = CopiesIn(g, grants)
              /\ \A rg \in TemplatesOf(role) :
                     rg.scope = last.args[2] =>
                         Keyed(grants', user, rg.scope, role) # {}]_vars

\* C30: assign_role, revoke_role, assign_group and override_grant called
\* for a principal P neither create, change nor delete a Grant of another
\* principal Q: the Grants of Q are the same before and after, and so is
\* check(Q, scope, required, context) for every scope, action set and
\* context.
C30_OtherPrincipalsUntouched ==
    [][\A user \in Users :
          (\/ /\ last'.op = "assign_role"
              /\ \E role \in RoleSlugs, by \in Actors : AssignRole(user, role, by)
           \/ /\ last'.op = "revoke_role"
              /\ \E role \in RoleSlugs : RevokeRole(user, role)
           \/ /\ last'.op = "assign_group"
              /\ \E group \in GroupSlugs : AssignGroup(user, group)
           \/ /\ last'.op = "override_grant"
              /\ \E scope \in Scopes, remove_actions \in RemoveSets :
                     OverrideGrant(user, scope, remove_actions)) =>
              \A other \in Users \ {user} :
                  /\ Only(grants', {g \in Rows(grants') : g.user = other}) =
                         Only(grants, {g \in Rows(grants) : g.user = other})
                  /\ \A scope \in Scopes, required \in RequiredSets,
                        context \in FilterContexts :
                         check(grants', other, scope, required, context) =
                             check(grants, other, scope, required, context)]_vars

\* C30 witness: override_grant(u1, ...) has deleted a Grant of u1 and u2
\* holds a Grant on the same scope.
C30_Witness ==
    /\ last.op = "override_grant"
    /\ last.outcome = "deleted"
    /\ last.args[1] = "u1"
    /\ GrantsOn(grants, "u2", last.args[2]) # {}

====
